---------------------------- MODULE Spec2Model ----------------------------
(***************************************************************************)
(* A model of the flatbuffer dataframe store of CS598-MP3:                 *)
(*   fb_dataframe.py      to_flatbuffer, fb_dataframe_head,                *)
(*                        fb_dataframe_group_by_sum,                       *)
(*                        fb_dataframe_map_numeric_column                  *)
(*   fb_shared_memory.py  FbSharedMemory over the OS segment "CS598" and   *)
(*                        the persisted catalog startdict.json             *)
(*                                                                         *)
(* Bytes are integers 0..255.  A buffer is a sequence of bytes; the byte   *)
(* at Python offset o is element o+1 of the sequence.                      *)
(*                                                                         *)
(* The byte layout inside a blob is the one the docstring of to_flatbuffer *)
(* gives (DF metadata, then for each column its metadata and its values,   *)
(* in input order); the flatbuffers builder's vtables and alignment        *)
(* padding are not modelled.  Every length prefix of that layout is one    *)
(* byte wide; numeric elements are 8 bytes wide as PrependInt64 and        *)
(* PrependFloat64 write them.                                              *)
(***************************************************************************)
EXTENDS Integers, Sequences, FiniteSets, TLC

(***************************************************************************)
(* Bounds of the model.                                                    *)
(***************************************************************************)
\* Capacity of the segment in bytes.  The program creates it with
\* size=200000000 (fb_shared_memory.py:18); the model scales it down so
\* that a MemoryError is within reach of two adds.
SegSize == 86
\* How many FbSharedMemory objects are constructed in all.
MaxCtor == 3
\* How many calls in a row one buffer is given to fb_dataframe_map_numeric_column.
MaxCalls == 2

Procs == {"p1", "p2"}
Names == {"a", "b"}

(***************************************************************************)
(* Bytes.                                                                  *)
(***************************************************************************)
\* struct.pack_into('I', buf, off, n): 4 bytes, little-endian.
PackU32(n) ==
  <<n % 256, (n \div 256) % 256, (n \div 65536) % 256, (n \div 16777216) % 256>>

\* struct.unpack_from('I', buf, off)[0] on the 4 bytes b.  The model's
\* integers end at 2^31 - 1: a larger value is read as 2^31 - 1, which is
\* beyond every buffer of the model all the same.
UnpackU32(b) ==
  IF b[4] >= 128 THEN 2147483647
  ELSE b[1] + 256 * b[2] + 65536 * b[3] + 16777216 * b[4]

\* builder.PrependInt64(v): 8 bytes, little-endian two's complement.  The
\* model's integers are within 32 bits, so bytes 5..8 are the sign extension.
Int64Bytes(v) ==
  [k \in 1..8 |->
     CASE k = 1 -> v % 256
       [] k = 2 -> (v \div 256) % 256
       [] k = 3 -> (v \div 65536) % 256
       [] k = 4 -> (v \div 16777216) % 256
       [] OTHER -> IF v < 0 THEN 255 ELSE 0]

\* column.IntValues(j): the 8 bytes b read back as a signed integer.  Only
\* sign-extended 32-bit values are representable in the model; any other bit
\* pattern is read as its low 31 bits (it never arises from Int64Bytes).
Int64Value(b) ==
  LET low == b[1] + 256 * b[2] + 65536 * b[3] + 16777216 * (b[4] % 128)
  IN  IF b[4] >= 128 THEN (low - 2147483647) - 1 ELSE low

\* The float64 values of the model, named by their literal.
Floats == {"0.5", "-0.5", "1.5", "-1.5", "0.0", "-0.0"}

\* builder.PrependFloat64(v): the 8 bytes of the IEEE-754 double, little-endian.
Float64Bytes(f) ==
  CASE f = "0.5"  -> <<0, 0, 0, 0, 0, 0, 224, 63>>
    [] f = "-0.5" -> <<0, 0, 0, 0, 0, 0, 224, 191>>
    [] f = "1.5"  -> <<0, 0, 0, 0, 0, 0, 248, 63>>
    [] f = "-1.5" -> <<0, 0, 0, 0, 0, 0, 248, 191>>
    [] f = "0.0"  -> <<0, 0, 0, 0, 0, 0, 0, 0>>
    [] f = "-0.0" -> <<0, 0, 0, 0, 0, 0, 0, 128>>

\* column.FloatValues(j): the double whose bytes are b ("nan" stands for
\* every pattern outside the model's floats).
Float64Value(b) ==
  IF \E f \in Floats : Float64Bytes(f) = b
  THEN CHOOSE f \in Floats : Float64Bytes(f) = b
  ELSE "nan"

\* buf[lo:hi] of Python: the bytes at offsets lo..hi-1, clamped to the buffer.
Slice(buf, lo, hi) ==
  LET h == IF hi > Len(buf) THEN Len(buf) ELSE hi
  IN  IF lo >= h THEN <<>> ELSE [k \in 1..(h - lo) |-> buf[lo + k]]

\* buf[lo:lo+len(data)] = data
Splice(buf, lo, data) ==
  [k \in 1..Len(buf) |->
     IF k > lo /\ k <= lo + Len(data) THEN data[k - lo] ELSE buf[k]]

RECURSIVE Concat(_)
Concat(ss) == IF ss = <<>> THEN <<>> ELSE Head(ss) \o Concat(Tail(ss))

(***************************************************************************)
(* Tables (pandas DataFrames) given to the store.  A column is             *)
(* [name, dtype, values]; a column name and a text value are sequences of  *)
(* UTF-8 byte codes.                                                       *)
(***************************************************************************)
ValueTypeInt == 0
ValueTypeFloat == 1
ValueTypeString == 2

\* "DataFrame Metadata" (fb_dataframe.py:28) as bytes.
MetadataString ==
  <<68, 97, 116, 97, 70, 114, 97, 109, 101, 32, 77, 101, 116, 97, 100, 97, 116, 97>>

ColX == <<120>>
ColY == <<121>>
ColS == <<115>>

\* x: int64 = [1, -2]
TableInt == <<[name |-> ColX, dtype |-> "int64", values |-> <<1, -2>>]>>
\* s: object = ["hi"], y: float64 = [-1.5]
TableMixed ==
  <<[name |-> ColS, dtype |-> "object", values |-> <<<<104, 105>>>>],
    [name |-> ColY, dtype |-> "float64", values |-> <<"-1.5">>]>>
\* x: bool, a dtype to_flatbuffer does not know
TableBool == <<[name |-> ColX, dtype |-> "bool", values |-> <<1>>]>>

\* x: int64, y: bool: the unknown dtype is not in the first column
TableIntBool ==
  <<[name |-> ColX, dtype |-> "int64", values |-> <<1>>],
    [name |-> ColY, dtype |-> "bool", values |-> <<1>>]>>

Tables == {TableInt, TableMixed, TableBool, TableIntBool}
ColNames == {ColX, ColY, ColS}
\* The (grouping column, sum column) pairs that are tried.
GroupPairs == {<<ColX, ColX>>}
\* The 'rows' arguments of dataframe_head that are tried (5 is its default).
HeadRows == {1, 5}

(***************************************************************************)
(* to_flatbuffer.                                                          *)
(***************************************************************************)
SupportedDtypes == {"int64", "float64", "object"}

DtypeCode(dtype) ==
  CASE dtype = "int64" -> ValueTypeInt
    [] dtype = "float64" -> ValueTypeFloat
    [] dtype = "object" -> ValueTypeString

\* A string: its length, then its bytes.
EncodeString(s) == <<Len(s)>> \o s

\* The value array of one column: its element count, then the elements.
EncodeValues(col) ==
  <<Len(col.values)>> \o
  Concat([j \in 1..Len(col.values) |->
            CASE col.dtype = "int64" -> Int64Bytes(col.values[j])
              [] col.dtype = "float64" -> Float64Bytes(col.values[j])
              [] col.dtype = "object" -> EncodeString(col.values[j])])

\* One column: metadata {name, dtype}, then its values.
EncodeColumn(col) ==
  EncodeString(col.name) \o <<DtypeCode(col.dtype)>> \o EncodeValues(col)

\* to_flatbuffer(df) raises ValueError on a dtype it does not know.
EncodeFails(table) ==
  \E i \in 1..Len(table) : table[i].dtype \notin SupportedDtypes

\* to_flatbuffer(df) for a table of supported dtypes.
ToFlatbuffer(table) ==
  EncodeString(MetadataString) \o <<Len(table)>> \o
  Concat([i \in 1..Len(table) |-> EncodeColumn(table[i])])

(***************************************************************************)
(* Reading a blob back: the accessors DataFrame.GetRootAs, df.Columns(i),  *)
(* column.Metadata(), column.IntValuesLength() ... that fb_dataframe_head  *)
(* and fb_dataframe_map_numeric_column call.  Every read is bounds-checked *)
(* against the buffer: a read past it is the struct.error the accessors    *)
(* raise, reported as ok = FALSE.                                          *)
(***************************************************************************)
\* Offset just after k length-prefixed strings that start at offset off,
\* or -1 when one of them runs past the buffer.
RECURSIVE SkipStrings(_, _, _)
SkipStrings(buf, off, k) ==
  IF k = 0 THEN off
  ELSE IF off < 0 \/ off >= Len(buf) THEN -1
  ELSE IF off + 1 + buf[off + 1] > Len(buf) THEN -1
  ELSE SkipStrings(buf, off + 1 + buf[off + 1], k - 1)

\* The descriptor of the column whose metadata starts at offset off:
\* name, dtype code, element count, base offset of its value array and the
\* offset just after it.
ColumnAt(buf, off) ==
  IF off < 0 \/ off >= Len(buf) \/ off + 3 + buf[off + 1] > Len(buf)
  THEN [ok |-> FALSE]
  ELSE LET nameLen == buf[off + 1]
           dtype == buf[off + 2 + nameLen]
           count == buf[off + 3 + nameLen]
           base == off + 3 + nameLen
           end == IF dtype \in {ValueTypeInt, ValueTypeFloat}
                  THEN IF base + 8 * count > Len(buf) THEN -1 ELSE base + 8 * count
                  ELSE IF dtype = ValueTypeString
                  THEN SkipStrings(buf, base, count)
                  ELSE -1
       IN  IF end < 0 THEN [ok |-> FALSE]
           ELSE [ok |-> TRUE, name |-> Slice(buf, off + 1, off + 1 + nameLen),
                 dtype |-> dtype, count |-> count, base |-> base, end |-> end]

\* The descriptors of the k columns that start at offset off; the scan stops
\* at the first column that cannot be read.
RECURSIVE ColumnsFrom(_, _, _)
ColumnsFrom(buf, off, k) ==
  IF k = 0 THEN <<>>
  ELSE LET c == ColumnAt(buf, off)
       IN  IF ~c.ok THEN <<c>> ELSE <<c>> \o ColumnsFrom(buf, c.end, k - 1)

\* DataFrame.GetRootAs(buf, 0) and its Columns: [ok, cols].
ParseDataFrame(buf) ==
  IF Len(buf) = 0 \/ 2 + buf[1] > Len(buf) THEN [ok |-> FALSE, cols |-> <<>>]
  ELSE LET cols == ColumnsFrom(buf, 2 + buf[1], buf[2 + buf[1]])
       IN  [ok |-> \A i \in 1..Len(cols) : cols[i].ok, cols |-> cols]

\* column.IntValues(j) / FloatValues(j) / StringValues(j).decode(), j from 0.
RECURSIVE StringValues(_, _, _)
StringValues(buf, off, j) ==
  IF j = 0 THEN Slice(buf, off + 1, off + 1 + buf[off + 1])
  ELSE StringValues(buf, off + 1 + buf[off + 1], j - 1)

ElementAt(buf, c, j) ==
  CASE c.dtype = ValueTypeInt -> Int64Value(Slice(buf, c.base + 8 * j, c.base + 8 * j + 8))
    [] c.dtype = ValueTypeFloat -> Float64Value(Slice(buf, c.base + 8 * j, c.base + 8 * j + 8))
    [] c.dtype = ValueTypeString -> StringValues(buf, c.base, j)

Min(a, b) == IF a < b THEN a ELSE b

\* The dtype pandas infers for a column built from a Python list: an empty
\* list gives object; a list of int, of float, of str gives int64, float64,
\* object.
InferDtype(code, values) ==
  IF values = <<>> THEN "object"
  ELSE CASE code = ValueTypeInt -> "int64"
         [] code = ValueTypeFloat -> "float64"
         [] code = ValueTypeString -> "object"

\* The dict 'columns' after the loop of line 138, given the assignments
\* columns[col_name] = values in their order: a key keeps the position of its
\* first assignment and the value of its last one.
ColumnsDict(assigned) ==
  LET n == Len(assigned)
      First(i) == \A k \in 1..(i - 1) : assigned[k].name # assigned[i].name
      LastOf(i) == CHOOSE k \in i..n :
                     /\ assigned[k].name = assigned[i].name
                     /\ \A m \in (k + 1)..n : assigned[m].name # assigned[i].name
      keys == SelectSeq([i \in 1..n |-> i], First)
  IN  [k \in 1..Len(keys) |-> assigned[LastOf(keys[k])]]

\* pd.DataFrame(columns) raises ValueError ("All arrays must be of the same
\* length") when two of the lists differ in length.
SameLengths(dict) ==
  \A i \in 1..Len(dict), k \in 1..Len(dict) :
    Len(dict[i].values) = Len(dict[k].values)

\* range(min(col.IntValuesLength(), rows)): how many values head reads.
HeadCount(length, rows) == IF Min(length, rows) < 0 THEN 0 ELSE Min(length, rows)

\* fb_dataframe_head(fb_bytes, rows): per column, its name, the dtype pandas
\* gives it and its first min(length, rows) values; exc names the exception
\* of an unreadable buffer or of pd.DataFrame.
FbDataframeHead(buf, rows) ==
  LET df == ParseDataFrame(buf)
  IN  IF ~df.ok THEN [exc |-> "struct.error", ret |-> <<>>]
      ELSE LET assigned ==
                 [i \in 1..Len(df.cols) |->
                    LET values == [j \in 1..HeadCount(df.cols[i].count, rows) |->
                                     ElementAt(buf, df.cols[i], j - 1)]
                    IN  [name |-> df.cols[i].name,
                         dtype |-> InferDtype(df.cols[i].dtype, values),
                         values |-> values]]
               columns == ColumnsDict(assigned)
           IN  IF SameLengths(columns) THEN [exc |-> "ok", ret |-> columns]
               ELSE [exc |-> "ValueError", ret |-> <<>>]

\* fb_dataframe_group_by_sum: the body is 'return pd.DataFrame()'.
FbDataframeGroupBySum(buf, groupCol, sumCol) ==
  [exc |-> "ok", ret |-> <<>>]

(***************************************************************************)
(* fb_dataframe_map_numeric_column.                                        *)
(***************************************************************************)
MapFuncs == {"identity", "negate"}
\* The map_func the processes of the store pass.
StoreMapFuncs == {"negate"}

\* map_func(v): the caller's function, total and dtype-preserving.
ApplyMap(f, dtype, v) ==
  IF f = "identity" THEN v
  ELSE IF dtype = ValueTypeInt THEN 0 - v
  ELSE CASE v = "0.5" -> "-0.5"
         [] v = "-0.5" -> "0.5"
         [] v = "1.5" -> "-1.5"
         [] v = "-1.5" -> "1.5"
         [] v = "0.0" -> "-0.0"
         [] v = "-0.0" -> "0.0"
         [] OTHER -> v

\* Index of the column the loop of line 198 stops at: the first one named
\* col whose dtype is Int or Float; 0 when there is none.
TargetColumn(df, col) ==
  LET hits == {i \in 1..Len(df.cols) :
                 /\ df.cols[i].name = col
                 /\ df.cols[i].dtype \in {ValueTypeInt, ValueTypeFloat}}
  IN  IF hits = {} THEN 0 ELSE CHOOSE i \in hits : \A k \in hits : i <= k

\* new_values: map_func applied to every element of column c.
NewValues(buf, c, f) ==
  [j \in 1..c.count |-> ApplyMap(f, c.dtype, ElementAt(buf, c, j - 1))]

\* The vector the builder is given for new_values: 8 bytes per element.
RebuiltVector(c, vals) ==
  Concat([j \in 1..Len(vals) |->
            IF c.dtype = ValueTypeInt THEN Int64Bytes(vals[j])
            ELSE Float64Bytes(vals[j])])

\* A variant that reaches line 243 and stores the rebuilt single column
\* over the front of the buffer.
MapStoresRebuiltOutput(buf, col, f) ==
  LET df == ParseDataFrame(buf)
      t == IF df.ok THEN TargetColumn(df, col) ELSE 0
  IN  IF t = 0 THEN [exc |-> "NameError", buf |-> buf]
      ELSE LET c == df.cols[t]
               out == EncodeString(c.name) \o <<c.dtype, c.count>> \o
                      RebuiltVector(c, NewValues(buf, c, f))
           IN  [exc |-> "NameError",
                buf |-> Splice(buf, 0, Slice(out, 0, Len(buf)))]

\* fb_dataframe_map_numeric_column(fb_buf, col_name, map_func): the exception
\* it ends with and the content of fb_buf afterwards.
\*  - a numeric column named col: new_values is computed and a new column is
\*    built in a fresh builder, then line 239 calls builder.CreateByteVector
\*    with a list while a table is under construction, which the builder
\*    refuses with an exception ("BuilderError"), so the store of line 243 is
\*    never reached;
\*  - no such column: the loop ends and line 246 reads the name 'modified',
\*    which is bound nowhere: NameError, before the store of line 247.
FbDataframeMapNumericColumn(buf, col, f) ==
  LET df == ParseDataFrame(buf)
  IN  IF ~df.ok THEN [exc |-> "struct.error", buf |-> buf]
      ELSE IF TargetColumn(df, col) # 0 THEN [exc |-> "BuilderError", buf |-> buf]
      ELSE [exc |-> "NameError", buf |-> buf]

(***************************************************************************)
(* State.                                                                  *)
(***************************************************************************)
VARIABLES
  segs,     \* the segments created under the name "CS598" that still exist:
            \* slot -> bytes, <<>> for a free slot
  named,    \* slot of the segment the OS name refers to now, 0 if none
  file,     \* startdict.json: [exists, pairs]
  nctor,    \* history: how many constructors have been entered
  h,        \* per process, its FbSharedMemory object: [pc, seg, start, startdict]
  stored,   \* history: the frames written by successful adds
  last,     \* history: the last operation and how it ended
  eff,      \* history: the case the last operation was called in and whether
            \* it changed the segments, an object or the persisted catalog
  fbuf,     \* a buffer handed to the functions of fb_dataframe.py directly
  fprev,    \* history: fbuf before the last call
  forig,    \* history: fbuf before the first call
  fcalls,   \* history: the calls made on fbuf: [col, f, exc]
  ftable,   \* history: the table fbuf was encoded from
  fret      \* the last query made on fbuf and what it returned

storeVars == <<segs, named, file, nctor, h, stored, last, eff>>
fnVars == <<fbuf, fprev, forig, fcalls, ftable, fret>>
vars == <<segs, named, file, nctor, h, stored, last, eff,
          fbuf, fprev, forig, fcalls, ftable, fret>>

EmptyDict == <<>>

\* A segment exists while the name or a mapping refers to it, so at most one
\* per process and one more are alive at a time.
Slots == 1..(Cardinality(Procs) + 1)

\* The OS frees a segment once no name and no mapping refers to it: its
\* bytes are gone (<<>>), and so are the frames the history holds for it.
Live(hh, nm, i) == i = nm \/ \E q \in Procs : hh[q].seg = i

Reclaim(ss, hh, nm) == [i \in Slots |-> IF Live(hh, nm, i) THEN ss[i] ELSE <<>>]

Forget(st, hh, nm) == {fr \in st : Live(hh, nm, fr.seg)}

\* json.dump(startdict, f): the text of the file, as its set of key/value pairs.
JsonDump(dict) == {<<n, dict[n]>> : n \in DOMAIN dict}

\* json.load(f)
JsonLoad(pairs) ==
  [n \in {q[1] : q \in pairs} |-> (CHOOSE q \in pairs : q[1] = n)[2]]

NoHandle == [pc |-> "none", seg |-> 0, start |-> 0, startdict |-> EmptyDict]

\* How an operation ended: exc is the exception it raised, or how it returned.
Outcome(op, exc) == [op |-> op, exc |-> exc]

\* What is recorded of a step: the case of the call (see AddCase, ReadCase),
\* whether the name is in the caller's catalog afterwards, and whether the
\* step changed a segment, an object's fields or startdict.json.
Effect(case, present) ==
  [case |-> case, present |-> present,
   changed |-> <<segs', h', file'>> # <<segs, h, file>>]

StoreInit ==
  /\ segs = [i \in Slots |-> <<>>]
  /\ named = 0
  /\ file = [exists |-> FALSE, pairs |-> {}]
  /\ nctor = 0
  /\ h = [p \in Procs |-> NoHandle]
  /\ stored = {}
  /\ last = Outcome("init", "ok")
  /\ eff = [case |-> "none", present |-> FALSE, changed |-> FALSE]

\* No query made yet.
NoResult == [op |-> "none", rows |-> 0, groupCol |-> <<>>, sumCol |-> <<>>,
             exc |-> "ok", ret |-> <<>>]

FnIdle ==
  /\ fbuf = <<>> /\ fprev = <<>> /\ forig = <<>> /\ fcalls = <<>>
  /\ ftable = <<>> /\ fret = NoResult

Init == StoreInit /\ FnIdle

(***************************************************************************)
(* FbSharedMemory.__init__, in the three steps other processes can         *)
(* interleave with: the attach, the create, the load of the catalog.       *)
(***************************************************************************)
\* shared_memory.SharedMemory(name="CS598"): attach, or FileNotFoundError.
\* A process that constructs a new object drops the one it had: its mapping
\* is closed, the name stays.
Attach(p) ==
  /\ UNCHANGED fnVars
  /\ h[p].pc \in {"none", "ready"}
  /\ nctor < MaxCtor
  /\ nctor' = nctor + 1
  /\ IF named # 0
     THEN h' = [h EXCEPT ![p] = [NoHandle EXCEPT !.pc = "opened", !.seg = named]]
     ELSE h' = [h EXCEPT ![p] = [NoHandle EXCEPT !.pc = "notfound"]]
  /\ segs' = Reclaim(segs, h', named)
  /\ stored' = Forget(stored, h', named)
  /\ last' = Outcome("attach", IF named # 0 THEN "ok" ELSE "FileNotFoundError")
  /\ UNCHANGED <<named, file>>
  /\ eff' = Effect("none", FALSE)

\* shared_memory.SharedMemory(name="CS598", create=True, size=...): a new
\* zero-filled segment, or FileExistsError out of the constructor when
\* another process created it since the attach failed.
Create(p) ==
  /\ UNCHANGED fnVars
  /\ h[p].pc = "notfound"
  /\ IF named # 0
     THEN /\ h' = [h EXCEPT ![p] = NoHandle]
          /\ last' = Outcome("create", "FileExistsError")
          /\ UNCHANGED <<segs, named>>
     ELSE LET slot == CHOOSE i \in Slots : segs[i] = <<>> /\ \A k \in Slots : segs[k] = <<>> => i <= k
          IN  /\ segs' = [segs EXCEPT ![slot] = [k \in 1..SegSize |-> 0]]
              /\ named' = slot
              /\ h' = [h EXCEPT ![p] = [NoHandle EXCEPT !.pc = "opened", !.seg = slot]]
              /\ last' = Outcome("create", "ok")
  /\ UNCHANGED <<file, nctor, stored>>
  /\ eff' = Effect("none", FALSE)

\* self.start = 0; self.startdict = json.load(...) or {} without the file.
LoadCatalog(p) ==
  /\ UNCHANGED fnVars
  /\ h[p].pc = "opened"
  /\ h' = [h EXCEPT ![p] = [@ EXCEPT !.pc = "ready", !.start = 0,
                              !.startdict = IF file.exists THEN JsonLoad(file.pairs)
                                            ELSE EmptyDict]]
  /\ last' = Outcome("load", "ok")
  /\ UNCHANGED <<segs, named, file, nctor, stored>>
  /\ eff' = Effect("none", FALSE)

(***************************************************************************)
(* FbSharedMemory.add_dataframe(name, df).                                 *)
(***************************************************************************)
\* The offset add_dataframe writes the next frame at: self.start.
WriteOffset(hd) == hd.start

\* A variant without the duplicate check.
AlreadyExistsNever(hd, name) == FALSE

\* 'if name in self.startdict'
AlreadyExists(hd, name) == name \in DOMAIN hd.startdict

\* A variant whose check forgets the 4 bytes of the length prefix.
ExceedsCapacityOfBlobOnly(start, total_size) == start + total_size - 4 > SegSize

\* 'if self.start + total_size > self.df_shared_memory.size'
ExceedsCapacity(start, total_size) == start + total_size > SegSize

\* The case an add is called in: the name is already in the object's catalog
\* ("known"); else the table has a dtype outside int64, float64, object
\* ("unsupported"); else start + 4 + len(blob) is beyond the capacity
\* ("too big"); else "fits".
AddCase(hd, name, table) ==
  IF name \in DOMAIN hd.startdict THEN "known"
  ELSE IF \E i \in 1..Len(table) : table[i].dtype \notin {"int64", "float64", "object"}
  THEN "unsupported"
  ELSE IF hd.start + 4 + Len(ToFlatbuffer(table)) > SegSize THEN "too big"
  ELSE "fits"

\* A variant that records the name in the catalog before it encodes the table.
AddAbortedAfterRecording(p, name) ==
  /\ h' = [h EXCEPT ![p] =
             [@ EXCEPT !.startdict = [n \in DOMAIN h[p].startdict \cup {name} |->
                                        IF n = name THEN h[p].start
                                        ELSE h[p].startdict[n]]]]
  /\ UNCHANGED <<segs, named, file, nctor, stored>>

\* to_flatbuffer raised at line 41: add_dataframe has assigned nothing yet.
AddAborted(p, name) == UNCHANGED <<segs, named, file, nctor, h, stored>>

AddDataframe(p, name, table) ==
  /\ UNCHANGED fnVars
  /\ h[p].pc = "ready"
  /\ IF AlreadyExists(h[p], name)
     THEN \* "already exists": return
          /\ last' = Outcome("add", "exists")
          /\ UNCHANGED <<segs, named, file, nctor, h, stored>>
     ELSE IF EncodeFails(table)
     THEN /\ last' = Outcome("add", "ValueError")
          /\ AddAborted(p, name)
     ELSE LET fb_data == ToFlatbuffer(table)
              fb_size == Len(fb_data)
              total_size == 4 + fb_size
              at == WriteOffset(h[p])
              dict == [n \in DOMAIN h[p].startdict \cup {name} |->
                         IF n = name THEN at ELSE h[p].startdict[n]]
          IN  IF ExceedsCapacity(at, total_size)
              THEN /\ last' = Outcome("add", "MemoryError")
                   /\ UNCHANGED <<segs, named, file, nctor, h, stored>>
              ELSE /\ segs' = [segs EXCEPT ![h[p].seg] =
                                 Splice(Splice(@, at, PackU32(fb_size)), at + 4, fb_data)]
                   /\ h' = [h EXCEPT ![p] = [@ EXCEPT !.startdict = dict,
                                                       !.start = at + total_size]]
                   /\ file' = [exists |-> TRUE, pairs |-> JsonDump(dict)]
                   /\ stored' = stored \cup
                        {[name |-> name, seg |-> h[p].seg, off |-> at, blob |-> fb_data]}
                   /\ last' = Outcome("add", "ok")
                   /\ UNCHANGED <<named, nctor>>
  /\ eff' = Effect(AddCase(h[p], name, table), name \in DOMAIN h'[p].startdict)

(***************************************************************************)
(* FbSharedMemory._get_fb_buf(df_name) and the operations built on it.     *)
(***************************************************************************)
\* The byte range [lo, hi) of the view _get_fb_buf returns for a frame at
\* offset start of memory mem.
ViewRange(mem, start) ==
  LET size == UnpackU32(Slice(mem, start, start + 4))
      lo == Min(start + 4, Len(mem))
      hi == IF size > Len(mem) THEN Len(mem) ELSE Min(start + 4 + size, Len(mem))
  IN  [lo |-> lo, hi |-> IF hi < lo THEN lo ELSE hi]

\* A variant that raises another exception for a missing name.
LookupRaisesValueError(hd, name) ==
  IF name \notin DOMAIN hd.startdict THEN "ValueError" ELSE "ok"

\* 'if df_name not in self.startdict: raise KeyError'
LookupOutcome(hd, name) ==
  IF name \notin DOMAIN hd.startdict THEN "KeyError" ELSE "ok"

\* A variant of line 67 that assigns the field self.start instead of the
\* local variable start.
LookupMovesCursor(hd, name) ==
  IF name \in DOMAIN hd.startdict THEN [hd EXCEPT !.start = hd.startdict[name]]
  ELSE hd

\* The object after _get_fb_buf(name): 'start' and 'size' are locals, no
\* field of the object is assigned.
AfterLookup(hd, name) == hd

\* The bytes seen through the view of name in the handle hd.
GetFbBuf(ss, hd, name) ==
  LET r == ViewRange(ss[hd.seg], hd.startdict[name])
  IN  Slice(ss[hd.seg], r.lo, r.hi)

\* The case a read is called in: the name is in the object's catalog or not.
ReadCase(hd, name) ==
  IF name \in DOMAIN hd.startdict THEN "known" ELSE "unknown"

GetBuf(p, name) ==
  /\ UNCHANGED fnVars
  /\ h[p].pc = "ready"
  /\ last' = Outcome("get", LookupOutcome(h[p], name))
  /\ h' = [h EXCEPT ![p] = AfterLookup(h[p], name)]
  /\ UNCHANGED <<segs, named, file, nctor, stored>>
  /\ eff' = Effect(ReadCase(h[p], name), name \in DOMAIN h'[p].startdict)

DataframeHead(p, name, rows) ==
  /\ UNCHANGED fnVars
  /\ h[p].pc = "ready"
  /\ last' = IF LookupOutcome(h[p], name) # "ok"
             THEN Outcome("head", LookupOutcome(h[p], name))
             ELSE Outcome("head", FbDataframeHead(GetFbBuf(segs, h[p], name), rows).exc)
  /\ h' = [h EXCEPT ![p] = AfterLookup(h[p], name)]
  /\ UNCHANGED <<segs, named, file, nctor, stored>>
  /\ eff' = Effect(ReadCase(h[p], name), name \in DOMAIN h'[p].startdict)

DataframeGroupBySum(p, name, groupCol, sumCol) ==
  /\ UNCHANGED fnVars
  /\ h[p].pc = "ready"
  /\ last' = IF LookupOutcome(h[p], name) # "ok"
             THEN Outcome("group_by_sum", LookupOutcome(h[p], name))
             ELSE Outcome("group_by_sum",
                          FbDataframeGroupBySum(GetFbBuf(segs, h[p], name),
                                                groupCol, sumCol).exc)
  /\ h' = [h EXCEPT ![p] = AfterLookup(h[p], name)]
  /\ UNCHANGED <<segs, named, file, nctor, stored>>
  /\ eff' = Effect(ReadCase(h[p], name), name \in DOMAIN h'[p].startdict)

\* The view aliases the segment: what the function leaves in fb_buf is what
\* the segment holds in the view's range.
DataframeMapNumericColumn(p, name, col, f) ==
  /\ UNCHANGED fnVars
  /\ h[p].pc = "ready"
  /\ IF LookupOutcome(h[p], name) # "ok"
     THEN /\ last' = Outcome("map", LookupOutcome(h[p], name))
          /\ UNCHANGED segs
     ELSE LET view == ViewRange(segs[h[p].seg], h[p].startdict[name])
              r == FbDataframeMapNumericColumn(GetFbBuf(segs, h[p], name), col, f)
          IN  /\ segs' = [segs EXCEPT ![h[p].seg] = Splice(@, view.lo, r.buf)]
              /\ last' = Outcome("map", r.exc)
  /\ h' = [h EXCEPT ![p] = AfterLookup(h[p], name)]
  /\ UNCHANGED <<named, file, nctor, stored>>
  /\ eff' = Effect(ReadCase(h[p], name), name \in DOMAIN h'[p].startdict)

\* close(): close the mapping and unlink the name "CS598", whichever segment
\* it refers to by now; an unlink of a missing name is swallowed.  The object
\* is not used again: the process may construct a new one.
Close(p) ==
  /\ UNCHANGED fnVars
  /\ h[p].pc = "ready"
  /\ h' = [h EXCEPT ![p] = NoHandle]
  /\ named' = 0
  /\ segs' = Reclaim(segs, h', 0)
  /\ stored' = Forget(stored, h', 0)
  /\ last' = Outcome("close", "ok")
  /\ UNCHANGED <<file, nctor>>
  /\ eff' = Effect("none", FALSE)

Next ==
  \/ \E p \in Procs : Attach(p)
  \/ \E p \in Procs : Create(p)
  \/ \E p \in Procs : LoadCatalog(p)
  \/ \E p \in Procs, name \in Names, table \in Tables : AddDataframe(p, name, table)
  \/ \E p \in Procs, name \in Names : GetBuf(p, name)
  \/ \E p \in Procs, name \in Names, rows \in HeadRows : DataframeHead(p, name, rows)
  \/ \E p \in Procs, name \in Names, gs \in GroupPairs :
       DataframeGroupBySum(p, name, gs[1], gs[2])
  \/ \E p \in Procs, name \in Names, col \in ColNames, f \in StoreMapFuncs :
       DataframeMapNumericColumn(p, name, col, f)
  \/ \E p \in Procs : Close(p)


\* The store: processes constructing FbSharedMemory objects and calling them.
Spec == Init /\ [][Next]_vars

(***************************************************************************)
(* fb_dataframe_map_numeric_column as a function of the buffer it is       *)
(* given: the buffer is the encoding of a table, and up to MaxCalls calls  *)
(* are made on it.                                                         *)
(***************************************************************************)
\* y: float64 = [0.5, -0.0]
TableFloat == <<[name |-> ColY, dtype |-> "float64", values |-> <<"0.5", "-0.0">>]>>
\* x: int64 = [3], s: object = ["hi"]
TableIntText ==
  <<[name |-> ColX, dtype |-> "int64", values |-> <<3>>],
    [name |-> ColS, dtype |-> "object", values |-> <<<<104, 105>>>>]>>

EncodedTables == {TableInt, TableMixed, TableFloat, TableIntText}

FnInit ==
  /\ StoreInit
  /\ \E t \in EncodedTables :
       fbuf = ToFlatbuffer(t) /\ forig = ToFlatbuffer(t) /\ ftable = t
  /\ fprev = <<>>
  /\ fcalls = <<>>
  /\ fret = NoResult

MapCall(col, f) ==
  /\ UNCHANGED storeVars
  /\ Len(fcalls) < MaxCalls
  /\ LET r == FbDataframeMapNumericColumn(fbuf, col, f)
     IN  /\ fbuf' = r.buf
         /\ fcalls' = Append(fcalls, [col |-> col, f |-> f, exc |-> r.exc])
  /\ fprev' = fbuf
  /\ UNCHANGED <<forig, ftable, fret>>

FnNext == \E col \in ColNames, f \in MapFuncs : MapCall(col, f)

SpecFn == FnInit /\ [][FnNext]_vars

(***************************************************************************)
(* fb_dataframe_head and fb_dataframe_group_by_sum as functions of the     *)
(* bytes they are given: the encoding of a table, or a blob another        *)
(* producer built whose columns differ in length.                          *)
(***************************************************************************)
ColG == <<103>>

\* g: int64 = [1, 1, 2], s: int64 = [10, 20, 5]
TableGroup ==
  <<[name |-> ColG, dtype |-> "int64", values |-> <<1, 1, 2>>],
    [name |-> ColS, dtype |-> "int64", values |-> <<10, 20, 5>>]>>
\* The same rows in another order.
TableGroupPermuted ==
  <<[name |-> ColG, dtype |-> "int64", values |-> <<2, 1, 1>>],
    [name |-> ColS, dtype |-> "int64", values |-> <<5, 20, 10>>]>>
\* x: int64, no rows
TableEmpty == <<[name |-> ColX, dtype |-> "int64", values |-> <<>>]>>
\* x: int64 = the least and the greatest integer of the model
TableExtremes ==
  <<[name |-> ColX, dtype |-> "int64",
     values |-> <<(0 - 2147483647) - 1, 2147483647>>]>>
\* x: int64 = [1, 2], g: int64 = [3]: not a DataFrame, the content of a blob
\* built column by column.
TableRagged ==
  <<[name |-> ColX, dtype |-> "int64", values |-> <<1, 2>>],
    [name |-> ColG, dtype |-> "int64", values |-> <<3>>]>>

\* The tables whose blob is queried.
QueryTables ==
  <<TableInt, TableMixed, TableFloat, TableIntText, TableGroup,
    TableGroupPermuted, TableEmpty, TableExtremes, TableRagged>>

\* A table a DataFrame can hold: all its columns have one length.
IsDataFrame(t) ==
  \A i \in 1..Len(t), k \in 1..Len(t) : Len(t[i].values) = Len(t[k].values)

\* The 'rows' arguments of fb_dataframe_head: 0..MaxRows.
MaxRows == 3
QueryCols == {ColG, ColS, ColX}

QueryInit ==
  /\ StoreInit
  /\ \E k \in 1..Len(QueryTables) :
       /\ fbuf = ToFlatbuffer(QueryTables[k])
       /\ forig = ToFlatbuffer(QueryTables[k])
       /\ ftable = QueryTables[k]
  /\ fprev = <<>>
  /\ fcalls = <<>>
  /\ fret = NoResult

HeadCall(rows) ==
  /\ UNCHANGED storeVars
  /\ LET r == FbDataframeHead(fbuf, rows)
     IN  fret' = [op |-> "head", rows |-> rows, groupCol |-> <<>>, sumCol |-> <<>>,
                  exc |-> r.exc, ret |-> r.ret]
  /\ UNCHANGED <<fbuf, fprev, forig, fcalls, ftable>>

GroupBySumCall(groupCol, sumCol) ==
  /\ UNCHANGED storeVars
  /\ LET r == FbDataframeGroupBySum(fbuf, groupCol, sumCol)
     IN  fret' = [op |-> "group_by_sum", rows |-> 0,
                  groupCol |-> groupCol, sumCol |-> sumCol,
                  exc |-> r.exc, ret |-> r.ret]
  /\ UNCHANGED <<fbuf, fprev, forig, fcalls, ftable>>

QueryNext ==
  \/ \E rows \in 0..MaxRows : HeadCall(rows)
  \/ \E groupCol \in QueryCols, sumCol \in QueryCols : GroupBySumCall(groupCol, sumCol)

SpecQuery == QueryInit /\ [][QueryNext]_vars

(***************************************************************************)
(* Properties of the store, checked under Spec.                            *)
(***************************************************************************)
\* The frame a successful add wrote: its length prefix, then its blob.
FrameBytes(fr) == PackU32(Len(fr.blob)) \o fr.blob

FrameEnd(fr) == fr.off + 4 + Len(fr.blob)

ReadOps == {"get", "head", "group_by_sum", "map"}

LastCall == fcalls[Len(fcalls)]

\* The numeric column named col of the table encoded in buf, 0 if none.
NumericTarget(buf, col) ==
  LET df == ParseDataFrame(buf) IN IF df.ok THEN TargetColumn(df, col) ELSE 0

\* C1: the segment is append-only.  Every frame a successful add has stored
\* in a segment that still exists is intact (no later add has changed a byte
\* in [offset, offset+4+length)), and two stored frames of one segment occupy
\* disjoint byte ranges.
C1_AppendOnly ==
  /\ \A fr \in stored :
       Slice(segs[fr.seg], fr.off, FrameEnd(fr)) = FrameBytes(fr)
  /\ \A fr1 \in stored, fr2 \in stored :
       (fr1 # fr2 /\ fr1.seg = fr2.seg) =>
         (FrameEnd(fr1) <= fr2.off \/ FrameEnd(fr2) <= fr1.off)

\* C2: add_dataframe with a name that is already in the catalog of the
\* object is a no-op: it returns without an exception and leaves the segment
\* bytes, the write cursor, the in-memory catalog and the persisted catalog
\* as they were, whatever the table is.
C2_DuplicateAddIsNoop ==
  (last.op = "add" /\ eff.case = "known") =>
    (last.exc = "exists" /\ ~eff.changed)

C2_Witness == last.op = "add" /\ eff.case = "known"

\* C3: an add of a new name whose frame does not fit (start + 4 + len(blob)
\* beyond the capacity) raises MemoryError and writes nothing: the segment
\* bytes, the write cursor and both catalogs are unchanged and the name is
\* still absent.
C3_OutOfMemoryWritesNothing ==
  (last.op = "add" /\ eff.case = "too big") =>
    (last.exc = "MemoryError" /\ ~eff.changed /\ ~eff.present)

C3_Witness == last.op = "add" /\ eff.case = "too big"

\* C4: what get returns for a name is the blob that was added under it: for
\* every frame stored by a successful add and every object whose catalog
\* holds that name at that offset of that segment, the view is exactly the
\* encoded table, also after later attachments and adds of other names (the
\* name itself was added to that segment once).
C4_GetReturnsWhatWasAdded ==
  \A fr \in stored, p \in Procs :
    ( /\ \A fr2 \in stored : (fr2.seg = fr.seg /\ fr2.name = fr.name) => fr2 = fr
      /\ h[p].pc = "ready"
      /\ h[p].seg = fr.seg
      /\ fr.name \in DOMAIN h[p].startdict
      /\ h[p].startdict[fr.name] = fr.off ) =>
      GetFbBuf(segs, h[p], fr.name) = fr.blob

\* C5: a constructor that finds the segment reloads the persisted mapping, so
\* that every frame stored in that segment by a successful add is in the new
\* object's catalog under its name, at its offset.
C5_AttachSeesEarlierAdds ==
  [][\A p \in Procs :
       (h[p].pc = "opened" /\ h'[p].pc = "ready") =>
         \A fr \in stored :
           fr.seg = h[p].seg =>
             /\ fr.name \in DOMAIN h'[p].startdict
             /\ h'[p].startdict[fr.name] = fr.off]_vars

\* C6: a persisted catalog entry is never updated or removed: an entry
\* name -> offset of startdict.json is in it after every later operation
\* (adds are atomic steps here, that is, serialized).
C6_PersistedEntriesStay ==
  [][\A q \in file.pairs : q \in file'.pairs]_vars

\* C7: get, head, group_by_sum and map with a name that is not in the
\* catalog of the object raise KeyError and change neither the segment, the
\* write cursor nor the catalogs.
C7_UnknownNameIsKeyError ==
  (last.op \in ReadOps /\ eff.case = "unknown") =>
    (last.exc = "KeyError" /\ ~eff.changed)

C7_Witness == last.op = "map" /\ eff.case = "unknown"

\* C11: the view aliases the live segment.  When a process completes
\* dataframe_map_numeric_column(name, col, f) on a numeric column of the
\* table stored under name, every object whose catalog holds that name at
\* the same offset of the same segment reads f(old element j) in element j
\* of that column from then on.
C11_MapVisibleToEveryReader ==
  [][\A p \in Procs, name \in Names, col \in ColNames, f \in StoreMapFuncs :
       ( /\ DataframeMapNumericColumn(p, name, col, f)
         /\ name \in DOMAIN h[p].startdict
         /\ NumericTarget(GetFbBuf(segs, h[p], name), col) # 0 ) =>
         LET old == GetFbBuf(segs, h[p], name)
             c == ParseDataFrame(old).cols[NumericTarget(old, col)]
         IN  \A q \in Procs :
               ( /\ h'[q].pc = "ready"
                 /\ h'[q].seg = h[p].seg
                 /\ name \in DOMAIN h'[q].startdict
                 /\ h'[q].startdict[name] = h[p].startdict[name] ) =>
                 \A j \in 0..(c.count - 1) :
                   ElementAt(GetFbBuf(segs', h'[q], name), c, j)
                     = ApplyMap(f, c.dtype, ElementAt(old, c, j))]_vars

\* C15: to_flatbuffer raises ValueError on a table with a column whose
\* dtype is not int64, float64 or object, so that add_dataframe of a new
\* name with such a table raises it too and leaves the segment bytes, the
\* write cursor, the in-memory catalog and the persisted catalog unchanged,
\* the name still absent.
C15_UnsupportedDtypeAddsNothing ==
  (last.op = "add" /\ eff.case = "unsupported") =>
    (last.exc = "ValueError" /\ ~eff.changed /\ ~eff.present)

C15_Witness ==
  /\ last.op = "add" /\ eff.case = "unsupported"
  /\ \E p \in Procs : h[p].pc = "ready" /\ h[p].start > 0

\* C17: dataframe_head and dataframe_group_by_sum are observers: whichever
\* process calls them and whatever ran before, a call changes no byte of a
\* segment, no write cursor and no catalog, in memory or persisted, so that
\* the reads of several processes return the same in every order.
C17_ReadsChangeNothing ==
  last.op \in {"head", "group_by_sum"} => ~eff.changed

C17_Witness ==
  /\ last.op \in {"head", "group_by_sum"}
  /\ last.exc = "ok"
  /\ eff.case = "known"
  /\ \A p \in Procs : h[p].pc = "ready" /\ DOMAIN h[p].startdict # {} /\ h[p].start > 0

\* C18: create-or-attach.  Whatever the interleaving of the constructors of
\* several processes, no constructor fails: a create ends without an
\* exception, it happens only while no segment has the name (the segment is
\* not recreated), and the steps of a constructor leave the contents of the
\* segment that has the name as they were.
C18_CreateOrAttach ==
  [][ /\ last'.op = "create" => (last'.exc = "ok" /\ named = 0)
      /\ (last'.op \in {"attach", "load"} /\ named # 0) =>
           (named' = named /\ segs'[named] = segs[named]) ]_vars

\* C19: every name in the catalog of an object refers to a frame that an add
\* wrote into the segment the object is attached to: a successful add stored
\* a frame under that name at that offset of that segment, and the frame
\* lies within the segment.  No entry outlives the segment its frame was in
\* (the frames of a segment that is gone are forgotten).
C19_CatalogEntriesHaveFrames ==
  \A p \in Procs :
    h[p].pc = "ready" =>
      \A name \in DOMAIN h[p].startdict :
        \E fr \in stored :
          /\ fr.seg = h[p].seg
          /\ fr.name = name
          /\ fr.off = h[p].startdict[name]
          /\ FrameEnd(fr) <= Len(segs[h[p].seg])

(***************************************************************************)
(* Properties of fb_dataframe_map_numeric_column, checked under SpecFn.    *)
(***************************************************************************)
\* C8: a call with a column name that is absent from the table, or that
\* names a Text column, returns normally and leaves the buffer unchanged.
C8_AbsentOrTextColumnIsNoop ==
  (fcalls # <<>> /\ NumericTarget(fprev, LastCall.col) = 0) =>
    (LastCall.exc = "ok" /\ fbuf = fprev)

\* C9: a call on an Int64 or Float64 column keeps the length of the buffer,
\* leaves every byte outside [base, base + count*8) of that column as it
\* was, and leaves f(old element j) in element j of the column.
C9_NumericColumnMappedInPlace ==
  (fcalls # <<>> /\ NumericTarget(fprev, LastCall.col) # 0) =>
    LET c == ParseDataFrame(fprev).cols[NumericTarget(fprev, LastCall.col)]
    IN  /\ Len(fbuf) = Len(fprev)
        /\ \A k \in 1..Len(fprev) :
             (k <= c.base \/ k > c.base + 8 * c.count) => fbuf[k] = fprev[k]
        /\ \A j \in 0..(c.count - 1) :
             ElementAt(fbuf, c, j) = ApplyMap(LastCall.f, c.dtype, ElementAt(fprev, c, j))

FirstValues(col, n) ==
  [name |-> col.name,
   values |-> [j \in 1..Min(n, Len(col.values)) |-> col.values[j]]]

\* C12: head(T, n) returns normally one result per column of T, in the order
\* of the columns, each with the name of its column and the first
\* min(n, length of that column) values in their original order; so n = 0
\* gives an empty column per name, n at least the length gives the whole
\* column, and columns of different lengths each give their own result.
C12_HeadFirstRowsPerColumn ==
  fret.op = "head" =>
    /\ fret.exc = "ok"
    /\ Len(fret.ret) = Len(ftable)
    /\ \A i \in 1..Len(ftable) :
         /\ fret.ret[i].name = FirstValues(ftable[i], fret.rows).name
         /\ fret.ret[i].values = FirstValues(ftable[i], fret.rows).values

\* The column named col of table t, as a set of indices (empty if absent).
ColumnsNamed(t, col) == {i \in 1..Len(t) : t[i].name = col}

ColumnOf(t, col) == t[CHOOSE i \in ColumnsNamed(t, col) : TRUE]

\* Both columns of the call are columns of the table, and Int64.
GroupableCall ==
  /\ fret.op = "group_by_sum"
  /\ \A col \in {fret.groupCol, fret.sumCol} :
       /\ ColumnsNamed(ftable, col) # {}
       /\ ColumnOf(ftable, col).dtype = "int64"

\* The sum of sumCol over the rows j of 1..n whose groupCol is key.
RECURSIVE SumWhere(_, _, _, _)
SumWhere(g, v, key, n) ==
  IF n = 0 THEN 0
  ELSE SumWhere(g, v, key, n - 1) + (IF g[n] = key THEN v[n] ELSE 0)

\* C13: groupBySum on two Int64 columns returns one row per distinct value
\* of the grouping column, the rows strictly ascending by key, each with the
\* sum of the sum column over the rows of that key (g = [1,1,2],
\* s = [10,20,5] gives [(1,30), (2,5)], in whatever order the rows come).
C13_GroupBySumResult ==
  GroupableCall =>
    LET g == ColumnOf(ftable, fret.groupCol).values
        v == ColumnOf(ftable, fret.sumCol).values
        keys == {g[j] : j \in 1..Len(g)}
    IN  /\ fret.exc = "ok"
        /\ Len(fret.ret) = Cardinality(keys)
        /\ \A k \in 1..Len(fret.ret) :
             /\ fret.ret[k].key \in keys
             /\ fret.ret[k].sum = SumWhere(g, v, fret.ret[k].key, Len(g))
             /\ \A m \in 1..(k - 1) : fret.ret[m].key < fret.ret[k].key

\* C14: groupBySum fails with ColumnNotFound when the grouping or the sum
\* column is not a column of the table, and with TypeMismatch when both
\* exist and one of them is not Int64; it returns no table then.
C14_GroupBySumErrors ==
  fret.op = "group_by_sum" =>
    LET missing == \E col \in {fret.groupCol, fret.sumCol} :
                     ColumnsNamed(ftable, col) = {}
    IN  /\ missing => fret.exc = "ColumnNotFound"
        /\ (~missing /\ ~GroupableCall) => fret.exc = "TypeMismatch"

\* C16: round trip.  For a table T of Int64, Float64 and Text columns, head
\* of to_flatbuffer(T) with n at least the row count returns the columns of T
\* with the same names, in the same order, with the same dtypes and the same
\* values in the same row order, the least and the greatest integer included.
C16_RoundTrip ==
  ( /\ fret.op = "head"
    /\ IsDataFrame(ftable)
    /\ \A i \in 1..Len(ftable) : fret.rows >= Len(ftable[i].values) ) =>
    /\ fret.exc = "ok"
    /\ Len(fret.ret) = Len(ftable)
    /\ \A i \in 1..Len(ftable) :
         /\ fret.ret[i].name = ftable[i].name
         /\ fret.ret[i].dtype = ftable[i].dtype
         /\ fret.ret[i].values = ftable[i].values

=============================================================================
